---- MODULE Spec2Model ----
(***************************************************************************)
(* ZendeskClientWrapper: the promise/queue/retry wrapper around the        *)
(* node-zendesk client.  One wrapper instance, its promise-queue, and the  *)
(* units of work (one per call of a wrapped operation) it dispatches.      *)
(***************************************************************************)
EXTENDS Integers, Sequences, FiniteSets, TLC

(* ---------------- program constants ---------------- *)
MAX_RETRIES == 6
RETRY_AFTER_DEFAULT == 500
RETRY_AFTER_MAX == 8000
MAX_CONCURRENT == 29

(* ---------------- bounds of the model ---------------- *)
\* A run is one of two workloads, fixed when it starts.
\*   "open": Open calls of any wrapped operation; the transport gives each
\*           physical call any answer, in any order.
\*   "load": more calls than slots.  The first Steady calls are generated
\*           operations the transport answers one after the other (503 once,
\*           then success); they are followed by Overflow generated operations
\*           answered with success or 404, in any order.
Open == 1
Overflow == 2
\* slots the steady calls of a "load" run leave free
Spare == 0
\* wrapper instances alive in the process; the steady calls and the calls of an
\* "open" run go to the first, the k-th overflow call of a "load" run to the
\* first or to the (k+1)-th
Wrappers == 2

Steady == MAX_CONCURRENT - Spare
MaxUnits == Steady + Overflow

\* the calls are numbered in call order
Units == 1 .. MaxUnits

WrapperIds == 1 .. Wrappers

VARIABLES
    workload,         \* "open" | "load"
    submitted,        \* number of wrapped-operation calls made so far
    kind,             \* per unit: "none" | "generated" | "attachment"
    wrapper,          \* per unit: the wrapper instance it was called on, 0 before
    args,             \* per unit: the closure's `args`
    retries,          \* per unit: the closure's `retries`
    calls,            \* per unit: physical calls started (method.apply)
    inflight,         \* per unit: physical calls started and not yet completed
    timers,           \* per unit: delays of the pending setTimeout timers
    answer,           \* per unit: what request.post last called back with
    lastErr,          \* per unit: err the completion callback got last
    promise,          \* per unit: the promise built by the generator
    cause,            \* per unit: what reject() was called with
    result,           \* per unit: the attempt whose result resolve() was called with
    warned,           \* per unit: number of logger.warn calls and what the last said
    future,           \* per unit: the promise returned by queue.add
    queue,            \* per promise-queue: items waiting
    pendingPromises,  \* per promise-queue: items running
    options,          \* this._client.articles.options of the wrapped client
    endpoint,         \* the endpoint _buildAuthRequest was last called with
    params            \* what _buildAuthRequest last returned

\* the request builder's part of the state
auth == <<options, endpoint, params>>

vars == <<workload, submitted, kind, wrapper, answer, args, retries, calls, inflight, timers, lastErr,
          promise, cause, result, warned, future, queue, pendingPromises,
          options, endpoint, params>>

(* ---------------- errors ---------------- *)
\* a JS value for `err`: null, or an object whose statusCode / retryAfter are
\* 0 when the property is missing (both are falsy and not >= 500 either way)
NullErr == [null |-> TRUE, statusCode |-> 0, retryAfter |-> 0, attempt |-> 0]

Err(code, after, n) ==
    [null |-> FALSE, statusCode |-> code, retryAfter |-> after, attempt |-> n]

(* ---------------- pure functions ---------------- *)
RECURSIVE Pow2(_)
Pow2(n) == IF n <= 0 THEN 1 ELSE 2 * Pow2(n - 1)

Max(a, b) == IF a >= b THEN a ELSE b
Min(a, b) == IF a <= b THEN a ELSE b

\* _calcRetryAfter(retryNumber)
calcRetryAfter(retryNumber) ==
    LET multiplier == Max(Pow2(retryNumber), 1)
    IN  Min(RETRY_AFTER_DEFAULT * multiplier, RETRY_AFTER_MAX)

(* ---------------- transport answers ---------------- *)
\* what the node-zendesk client hands a generated operation's callback as `err`
\* on the n-th physical call: null, or an error object
GenErrs(n) ==
    { NullErr,
      Err(404, 0, n),      \* client error, no hint
      Err(429, 2, n),      \* rate limited, retry-after 2 s
      Err(503, 0, n),      \* server error, no hint
      Err(503, 9, n),      \* server error, retry-after 9 s
      Err(0, 0, n) }       \* error object without a status (connection error)

\* what request.post hands the attachment upload's callback: (error, response,
\* result); header is the response's retry-after header in seconds, 0 when absent
Raw(e, r, code, h, b) ==
    [error |-> e, response |-> r, statusCode |-> code, header |-> h, body |-> b]

\* no answer yet
NoRaw == Raw(FALSE, FALSE, 0, 0, "absent")

AttRaws ==
    { Raw(FALSE, TRUE, 201, 0, "json"),     \* created
      Raw(FALSE, TRUE, 201, 2, "json"),     \* created, response carries retry-after
      Raw(FALSE, TRUE, 404, 0, "absent"),
      Raw(FALSE, TRUE, 429, 2, "json"),
      Raw(FALSE, TRUE, 503, 0, "absent"),
      Raw(FALSE, TRUE, 503, 9, "absent"),
      Raw(FALSE, TRUE, 503, 0, "text"),     \* 503 with a body that is not JSON
      Raw(TRUE, FALSE, 0, 0, "absent") }    \* connection error, no response

\* _buildError(error, response): reading response.statusCode / response.headers
\* of a missing response throws a TypeError
BuildErrorThrows(raw) == ~raw.response

\* variant: the retry-after header is attached only to an error that is
\* already there
buildErrorHintOnFailureOnly(raw, n) ==
    LET e1 == IF ~raw.error /\ raw.statusCode >= 400
              THEN Err(raw.statusCode, 0, n)
              ELSE IF raw.error THEN Err(0, 0, n) ELSE NullErr
    IN  IF raw.header # 0 /\ ~e1.null
        THEN Err(e1.statusCode, raw.header, n)
        ELSE e1

\* _buildError(error, response), for a response that is there
buildError(raw, n) ==
    LET e1 == IF ~raw.error /\ raw.statusCode >= 400
              THEN Err(raw.statusCode, 0, n)
              ELSE IF raw.error THEN Err(0, 0, n) ELSE NullErr
    IN  IF raw.header # 0
        THEN Err(e1.statusCode, raw.header, n)
        ELSE e1

\* JSON.parse(result) throws a SyntaxError on a body that is not JSON
ParseThrows(raw) == raw.body = "text"

(* ---------------- the dispatcher's completion callback ---------------- *)
\* variant: only the status code makes a failure retryable
RetryableStatusOnly(err) == err.statusCode >= 500

\* err.retryAfter || err.statusCode >= 500
Retryable(err) == err.retryAfter # 0 \/ err.statusCode >= 500

\* variant: the budget test lets one retry too many through
ShouldRetryNoBudget(err, r) == (err.retryAfter # 0 \/ err.statusCode >= 500) /\ r >= 0

\* (err.retryAfter || err.statusCode >= 500) && retries > 0
ShouldRetry(err, r) == Retryable(err) /\ r > 0

\* variant: the hint is capped like the computed backoff
RetryDelayCapped(err, r) ==
    IF err.retryAfter # 0 THEN Min(err.retryAfter * 1000, RETRY_AFTER_MAX)
                          ELSE Min(RETRY_AFTER_DEFAULT * Pow2(MAX_RETRIES - r), RETRY_AFTER_MAX)

\* variant: the attempt index is read after the decrement
RetryDelayAfterDecrement(err, r) ==
    IF err.retryAfter # 0 THEN err.retryAfter * 1000
                          ELSE calcRetryAfter(MAX_RETRIES - (r - 1))

\* const retryAfter = err.retryAfter ? err.retryAfter * 1000
\*                                   : this._calcRetryAfter(MAX_RETRIES - retries)
RetryDelay(err, r) ==
    IF err.retryAfter # 0 THEN err.retryAfter * 1000
                          ELSE calcRetryAfter(MAX_RETRIES - r)

\* retries--
RetriesAfterRetry(r) == r - 1

\* variant: one retry counter at module level, shared by every unit
DecrementedShared(rs, u) == [v \in DOMAIN rs |-> RetriesAfterRetry(rs[v])]

\* let retries = MAX_RETRIES is a variable of the call's own closure: the
\* retry of unit u decrements the counter of u
Decremented(rs, u) == [rs EXCEPT ![u] = RetriesAfterRetry(@)]

\* ...args after client and method were shifted off: what the caller passed
Args(k) == IF k = "attachment" THEN <<"articleId", "resourcePath">> ELSE <<"params">>

\* variant: setTimeout(method.apply(client, args), retryAfter) calls at once
RetryCallsNowToo == TRUE

\* setTimeout(() => method.apply(client, args), retryAfter): the retry hands
\* setTimeout a closure, so no physical call is started before the timer fires
RetryCallsNow == FALSE

\* variant: a synthetic error takes the place of the failure's cause
RejectValueSynthetic(err) == Err(0, 0, 0)

\* reject(err): the value the promise is rejected with
RejectValue(err) == err

\* variant: resolve() is given what the first attempt returned
ResolveValueOfFirst(n) == 1

\* return resolve(result): the result the callback of attempt n was called with
ResolveValue(n) == n

\* nothing logged yet
NoWarning == [count |-> 0, delay |-> 0, remaining |-> 0]

\* variant: the warning is written before retries--
WarnedBeforeDecrement(w, err, r) ==
    [count |-> w.count + 1, delay |-> RetryDelay(err, r), remaining |-> r]

\* logger.warn(`... Retrying request after ${retryAfter} milliseconds.
\* ${retries} attempts are remaining.`), after retries--
Warned(w, err, r) ==
    [count |-> w.count + 1, delay |-> RetryDelay(err, r),
     remaining |-> RetriesAfterRetry(r)]

\* resolve / reject of a promise: a settled promise stays as it is
SettleTo(p, new) == IF p = "pending" THEN new ELSE p

(* ---------------- promise-queue ---------------- *)
\* variant: the limit test admits one item too many
CanDequeueOffByOne(q, pp) == pp <= MAX_CONCURRENT /\ q # <<>>

\* _dequeue: pendingPromises >= maxPendingPromises returns false, and so does
\* an empty queue
CanDequeue(q, pp) == pp < MAX_CONCURRENT /\ q # <<>>

\* variant: queue.pop() takes the newest item
ShiftLast(q) == [item |-> q[Len(q)], rest |-> SubSeq(q, 1, Len(q) - 1)]

\* queue.shift(): the item taken and what is left
Shift(q) == [item |-> Head(q), rest |-> Tail(q)]

\* the set of units (none or one) one call of _dequeue admits
Admitted(q, pp) == IF CanDequeue(q, pp) THEN {Shift(q).item} ELSE {}

\* the queue one call of _dequeue leaves
Dequeued(q, pp) == IF CanDequeue(q, pp) THEN Shift(q).rest ELSE q

\* variant: one queue at module level serves every wrapper instance
QueueOfShared(w) == 1

\* this._queue = new Queue(MAX_CONCURRENT): the queue of wrapper instance w is
\* the one its constructor made
QueueOf(w) == w

\* variant: the retry gives the slot up while it waits
PendingAfterRetryReleased(pp) == pp - 1

\* the retry neither adds the unit to the queue again nor gives up its slot
PendingAfterRetry(pp) == pp

\* variant: a settled item keeps its slot
PendingAfterSettleKept(pp) == pp

\* promise-queue, when the promise of a running item settles: pendingPromises--
PendingAfterSettle(pp) == pp - 1

(* ---------------- the authenticated request ---------------- *)
\* a JS undefined; in a template literal or a string sum it reads "undefined"
Undefined == "undefined"

\* JS truthiness of an option value: undefined, false and '' are falsy
Truthy(v) == v \notin {Undefined, "false", ""}

\* the option values the wrapped client may have been built with
Configs ==
    [ remoteUri : {"https://a.example/api/v2/help_center", "https://b.example/hc"},
      username : {Undefined, "agent@example.com"},
      password : {Undefined, "", "secret"},
      token : {Undefined, "t0ken"},
      oauth : {Undefined, "false", "true"} ]

DefaultOptions ==
    [ remoteUri |-> "https://a.example/api/v2/help_center",
      username |-> "agent@example.com",
      password |-> Undefined,
      token |-> "t0ken",
      oauth |-> Undefined ]

\* the article ids attachments are uploaded to
Articles == 2

\* const endpoint = `/articles/${articleId}/attachments.json`
Endpoint(articleId) == "/articles/" \o ToString(articleId) \o "/attachments.json"

\* params.auth: the properties that were not set are undefined
Auth(bearer, user, pass) == [bearer |-> bearer, user |-> user, pass |-> pass]

NoParams == [url |-> Undefined, auth |-> Auth(Undefined, Undefined, Undefined)]

\* variant: the password is looked at before the OAuth flag
buildAuthRequestPasswordFirst(o, ep) ==
    [ url |-> o.remoteUri \o ep,
      auth |-> IF Truthy(o.password)
               THEN Auth(Undefined, o.username, o.password)
               ELSE IF Truthy(o.oauth)
               THEN Auth(o.token, Undefined, Undefined)
               ELSE Auth(Undefined, o.username \o "/token", o.token) ]

\* _buildAuthRequest(endpoint)
buildAuthRequest(o, ep) ==
    [ url |-> o.remoteUri \o ep,
      auth |-> IF Truthy(o.oauth)
               THEN Auth(o.token, Undefined, Undefined)
               ELSE IF Truthy(o.password)
               THEN Auth(Undefined, o.username, o.password)
               ELSE Auth(Undefined, o.username \o "/token", o.token) ]

(* ---------------- workloads ---------------- *)
IsSteady(u) == workload = "load" /\ u <= Steady

\* calls the caller makes in this run
Limit == IF workload = "load" THEN MaxUnits ELSE Open

\* the wrapper instances the caller may make call u on
Targets(u) ==
    IF workload = "load" /\ u > Steady
    THEN {1} \cup ({u - Steady + 1} \cap WrapperIds)
    ELSE {1}

\* the wrapped operations the caller may call next
Kinds(u) == IF workload = "load" THEN {"generated"} ELSE {"generated", "attachment"}

\* how far a steady unit has come: 0 not admitted, 1 first call in flight,
\* 2 waiting for its retry timer, 3 second call in flight, 4 promise resolved,
\* 5 future resolved
Rank(u) ==
    CASE future[u] \in {"resolved", "rejected"} -> 5
      [] promise[u] \in {"resolved", "rejected"} -> 4
      [] calls[u] >= 2 -> 3
      [] timers[u] # <<>> -> 2
      [] calls[u] = 1 -> 1
      [] OTHER -> 0

\* the steady units move one after the other, in call order, each step only
\* once every steady unit has made the step before it: the unit whose turn it
\* is stands where the last steady unit stands, right behind a unit one step on
SteadyTurn(u) ==
    LET r == Rank(u)
    IN  /\ r >= 1
        /\ Rank(Steady) = r
        /\ IF u = 1 THEN TRUE ELSE Rank(u - 1) = r + 1

MayStep(u) == IsSteady(u) => SteadyTurn(u)

\* the answers the transport may give unit u's call now
GenAnswers(u) ==
    IF IsSteady(u)
    THEN IF calls[u] = 1 THEN {Err(503, 0, 1)} ELSE {NullErr}
    ELSE IF workload = "load"
    THEN {NullErr, Err(404, 0, calls[u])}
    ELSE GenErrs(calls[u])

(* ---------------- initial state ---------------- *)
Constructed ==
    /\ workload \in {"open", "load"}
    /\ submitted = 0
    /\ kind = [u \in Units |-> "none"]
    /\ wrapper = [u \in Units |-> 0]
    /\ args = [u \in Units |-> <<>>]
    /\ answer = [u \in Units |-> NoRaw]
    /\ retries = [u \in Units |-> MAX_RETRIES]
    /\ calls = [u \in Units |-> 0]
    /\ inflight = [u \in Units |-> 0]
    /\ timers = [u \in Units |-> <<>>]
    /\ lastErr = [u \in Units |-> NullErr]
    /\ promise = [u \in Units |-> "none"]
    /\ cause = [u \in Units |-> NullErr]
    /\ result = [u \in Units |-> 0]
    /\ warned = [u \in Units |-> NoWarning]
    /\ future = [u \in Units |-> "none"]
    /\ queue = [w \in WrapperIds |-> <<>>]
    /\ pendingPromises = [w \in WrapperIds |-> 0]
    /\ endpoint = Undefined
    /\ params = NoParams

Init ==
    /\ Constructed
    /\ options = DefaultOptions

(* ---------------- actions ---------------- *)
\* the part of _dequeue that runs the generator of the units in adm:
\* new Promise(...), args.push(callback), method.apply(client, args)
StartAdmitted(adm, pr, cl, fl, ar) ==
    /\ args' = [v \in Units |-> IF v \in adm THEN Append(ar[v], "callback") ELSE ar[v]]
    /\ promise' = [v \in Units |-> IF v \in adm THEN "pending" ELSE pr[v]]
    /\ calls' = [v \in Units |-> IF v \in adm THEN cl[v] + 1 ELSE cl[v]]
    /\ inflight' = [v \in Units |-> IF v \in adm THEN fl[v] + 1 ELSE fl[v]]

\* a wrapped operation is called: _createPromiseRequest, queue.add, _dequeue
Submit(k, w) ==
    /\ submitted < Limit
    /\ LET u == submitted + 1
           x == QueueOf(w)
           q == Append(queue[x], u)
           adm == Admitted(q, pendingPromises[x])
       IN  /\ k \in Kinds(u)
           /\ w \in Targets(u)
           /\ submitted' = u
           /\ kind' = [kind EXCEPT ![u] = k]
           /\ wrapper' = [wrapper EXCEPT ![u] = w]
           /\ retries' = [retries EXCEPT ![u] = MAX_RETRIES]
           /\ future' = [future EXCEPT ![u] = "pending"]
           /\ queue' = [queue EXCEPT ![x] = Dequeued(q, pendingPromises[x])]
           /\ pendingPromises' = [pendingPromises EXCEPT ![x] = @ + Cardinality(adm)]
           /\ StartAdmitted(adm, promise, calls, inflight, [args EXCEPT ![u] = Args(k)])
           /\ UNCHANGED <<workload, answer, timers, lastErr, cause, result, warned>>
           /\ UNCHANGED auth

\* the completion callback (err, statusCode, result) => ... of unit u, called
\* with err when one physical call of u completes
Callback(u, err) ==
    IF err.null
    THEN \* resolve(result)
         /\ promise' = [promise EXCEPT ![u] = SettleTo(@, "resolved")]
         /\ result' = [result EXCEPT ![u] = IF promise[u] = "pending"
                                             THEN ResolveValue(calls[u]) ELSE @]
         /\ inflight' = [inflight EXCEPT ![u] = @ - 1]
         /\ lastErr' = [lastErr EXCEPT ![u] = [err EXCEPT !.attempt = calls[u]]]
         /\ UNCHANGED <<retries, timers, cause, calls, pendingPromises, warned>>
    ELSE IF ShouldRetry(err, retries[u])
    THEN \* retries--, setTimeout(...)
         /\ retries' = Decremented(retries, u)
         /\ timers' = [timers EXCEPT ![u] = Append(@, RetryDelay(err, retries[u]))]
         /\ inflight' = [inflight EXCEPT ![u] = @ - 1 + IF RetryCallsNow THEN 1 ELSE 0]
         /\ calls' = [calls EXCEPT ![u] = @ + IF RetryCallsNow THEN 1 ELSE 0]
         /\ lastErr' = [lastErr EXCEPT ![u] = err]
         /\ pendingPromises' = [pendingPromises EXCEPT
                                   ![QueueOf(wrapper[u])] = PendingAfterRetry(@)]
         /\ warned' = [warned EXCEPT ![u] = Warned(@, err, retries[u])]
         /\ UNCHANGED <<promise, cause, result>>
    ELSE \* reject(err)
         /\ promise' = [promise EXCEPT ![u] = SettleTo(@, "rejected")]
         /\ cause' = [cause EXCEPT ![u] = IF promise[u] = "pending"
                                           THEN RejectValue(err) ELSE @]
         /\ inflight' = [inflight EXCEPT ![u] = @ - 1]
         /\ lastErr' = [lastErr EXCEPT ![u] = err]
         /\ UNCHANGED <<retries, timers, calls, pendingPromises, result, warned>>

\* the node-zendesk client completes a physical call of a generated operation
CompleteGenerated(u, err) ==
    /\ kind[u] = "generated"
    /\ inflight[u] > 0
    /\ err \in GenAnswers(u)
    /\ MayStep(u)
    /\ Callback(u, err)
    /\ UNCHANGED <<workload, submitted, kind, wrapper, answer, args, future, queue>>
    /\ UNCHANGED auth

\* request.post completes a physical call of the attachment upload and runs
\* the callback of _createAttachment: JSON.parse, _buildError, callback(...)
CompleteAttachment(u, raw) ==
    /\ kind[u] = "attachment"
    /\ inflight[u] > 0
    /\ raw \in AttRaws
    /\ IF ParseThrows(raw) \/ BuildErrorThrows(raw)
       THEN \* the exception leaves the handler; callback(...) is never called
            /\ inflight' = [inflight EXCEPT ![u] = @ - 1]
            /\ UNCHANGED <<retries, timers, lastErr, promise, cause, calls,
                           pendingPromises, result, warned>>
       ELSE Callback(u, buildError(raw, calls[u]))
    /\ answer' = [answer EXCEPT ![u] = raw]
    /\ UNCHANGED <<workload, submitted, kind, wrapper, args, future, queue>>
    /\ UNCHANGED auth

\* a retry timer of unit u fires: method.apply(client, args)
TimerFires(u) ==
    /\ timers[u] # <<>>
    /\ MayStep(u)
    /\ timers' = [timers EXCEPT ![u] = Tail(@)]
    /\ inflight' = [inflight EXCEPT ![u] = @ + 1]
    /\ calls' = [calls EXCEPT ![u] = @ + 1]
    /\ UNCHANGED <<workload, submitted, kind, wrapper, answer, args, retries, lastErr, promise,
                   cause, future, queue, pendingPromises, result, warned>>
    /\ UNCHANGED auth

\* promise-queue's handlers on the generator's promise: pendingPromises--,
\* item.resolve / item.reject, _dequeue
Then(u) ==
    /\ promise[u] \in {"resolved", "rejected"}
    /\ future[u] = "pending"
    /\ MayStep(u)
    /\ LET x == QueueOf(wrapper[u])
           pp == PendingAfterSettle(pendingPromises[x])
           adm == Admitted(queue[x], pp)
       IN  /\ future' = [future EXCEPT ![u] = promise[u]]
           /\ queue' = [queue EXCEPT ![x] = Dequeued(queue[x], pp)]
           /\ pendingPromises' = [pendingPromises EXCEPT ![x] = pp + Cardinality(adm)]
           /\ StartAdmitted(adm, promise, calls, inflight, args)
    /\ UNCHANGED <<workload, submitted, kind, wrapper, answer, retries, timers, lastErr, cause,
                   result, warned>>
    /\ UNCHANGED auth

\* _buildAuthRequest(endpoint), called by _createAttachment for an article
BuildAuthRequest(articleId) ==
    /\ endpoint' = Endpoint(articleId)
    /\ params' = buildAuthRequest(options, Endpoint(articleId))
    /\ UNCHANGED <<workload, submitted, kind, wrapper, answer, args, retries, calls, inflight,
                   timers, lastErr, promise, cause, result, warned, future, queue,
                   pendingPromises, options>>

Next ==
    \/ \E k \in {"generated", "attachment"} : \E w \in WrapperIds : Submit(k, w)
    \/ \E u \in Units : \E err \in GenAnswers(u) : CompleteGenerated(u, err)
    \/ \E u \in Units : \E raw \in AttRaws : CompleteAttachment(u, raw)
    \/ \E u \in Units : TimerFires(u)
    \/ \E u \in Units : Then(u)

Spec == Init /\ [][Next]_vars

\* the scheduling the claims about termination assume: the caller makes the
\* calls of its workload, the transport completes every physical call, every
\* timer fires, and the queue's handlers run
FairSpec ==
    /\ Spec
    /\ WF_vars(\E k \in {"generated", "attachment"} : \E w \in WrapperIds : Submit(k, w))
    /\ \A u \in Units :
          /\ WF_vars(\E err \in GenAnswers(u) : CompleteGenerated(u, err))
          /\ WF_vars(\E raw \in AttRaws : CompleteAttachment(u, raw))
          /\ WF_vars(TimerFires(u))
          /\ WF_vars(Then(u))

\* the request builder on its own, for a client built with any of the option
\* values
AuthInit ==
    /\ Constructed
    /\ workload = "open"
    /\ options \in Configs

AuthNext == \E articleId \in 1 .. Articles : BuildAuthRequest(articleId)

AuthSpec == AuthInit /\ [][AuthNext]_vars

(* ---------------- derived state ---------------- *)
RECURSIVE SumTo(_, _)
SumTo(f, n) == IF n = 0 THEN 0 ELSE f[n] + SumTo(f, n - 1)

\* physical transport calls in flight, over all units
TotalInFlight == SumTo(inflight, MaxUnits)

IsAdmitted(u) == promise[u] # "none"
IsSettled(u) == future[u] \in {"resolved", "rejected"}
InQueue(u) == \E x \in WrapperIds : \E i \in 1 .. Len(queue[x]) : queue[x][i] = u

\* the units called on wrapper instance w
UnitsOf(w) == {u \in Units : wrapper[u] = w}

\* physical transport calls of wrapper instance w in flight
InFlightOf(w) ==
    SumTo([u \in Units |-> IF wrapper[u] = w THEN inflight[u] ELSE 0], MaxUnits)

\* unit u's latest physical call has completed with a failure the callback got,
\* and no later call of u has started
JustFailed(u) ==
    /\ ~lastErr[u].null
    /\ lastErr[u].attempt = calls[u]
    /\ inflight[u] = 0

\* the failure carries a retry-after hint
Hinted(e) == e.retryAfter # 0

(* ---------------- claims ---------------- *)

\* C1: at every moment at most MAX_CONCURRENT = 29 physical transport calls
\* of one wrapper instance are in flight, however many units have been
\* submitted to it.
C1_InFlightAtMostMaxConcurrent ==
    \A w \in WrapperIds : InFlightOf(w) <= MAX_CONCURRENT

\* C1 witness: all 29 slots run a physical call while further units wait.
C1_Witness ==
    \E w \in WrapperIds :
        /\ InFlightOf(w) = MAX_CONCURRENT
        /\ queue[QueueOf(w)] # <<>>

\* C2: every submitted unit eventually settles (its future is resolved or
\* rejected), given that every physical call completes and every timer fires.
C2_EveryUnitSettles ==
    \A u \in Units : (future[u] = "pending") ~> IsSettled(u)

\* C3: a unit performs at most MAX_RETRIES = 6 retries and 7 physical calls,
\* hinted retries spending the same budget; a unit rejected on an unhinted
\* 5xx failure has made exactly 6 retries and 7 calls.
C3_AtMostSixRetries ==
    \A u \in Units :
        /\ retries[u] \in 0 .. MAX_RETRIES
        /\ calls[u] <= 7
        /\ calls[u] + Len(timers[u]) <= (MAX_RETRIES - retries[u]) + 1
        /\ (promise[u] = "rejected" /\ cause[u].statusCode >= 500 /\ ~Hinted(cause[u]))
              => (retries[u] = 0 /\ calls[u] = 7 /\ cause[u].attempt = 7)

\* C3 witness: a unit rejected with an unhinted 503 after its seventh call.
C3_Witness ==
    \E u \in Units :
        /\ promise[u] = "rejected"
        /\ cause[u] = Err(503, 0, 7)
        /\ calls[u] = 7
        /\ retries[u] = 0

\* C4: after a failed attempt a retry is scheduled exactly when the failure has
\* a retry-after hint or a status >= 500, and retries were left; otherwise the
\* promise is rejected at once.  404 without a hint: rejected, no timer; a
\* hinted 429 with retries left: retried.
C4_RetryIffRetryableAndBudget ==
    \A u \in Units :
        JustFailed(u) =>
            LET e == lastErr[u]
                retryable == e.retryAfter # 0 \/ e.statusCode >= 500
                scheduled == timers[u] # <<>>
                rejected == promise[u] = "rejected"
            IN  /\ scheduled # rejected
                /\ scheduled => retryable
                /\ rejected => (~retryable \/ retries[u] = 0)
                /\ (e.statusCode = 404 /\ e.retryAfter = 0) => rejected
                /\ (e.statusCode = 429 /\ e.retryAfter # 0 /\ calls[u] <= MAX_RETRIES)
                      => scheduled

\* C4 witness: a 404 without a hint rejected after one physical call, no timer.
C4_Witness ==
    \E u \in Units :
        /\ JustFailed(u)
        /\ lastErr[u] = Err(404, 0, 1)
        /\ calls[u] = 1
        /\ timers[u] = <<>>
        /\ promise[u] = "rejected"

\* C5: a retry scheduled on a failure with a retry-after hint of s seconds
\* waits exactly s * 1000 ms, whatever the attempt and the status; the
\* 8000 ms cap does not apply.
C5_HintUsedVerbatim ==
    \A u \in Units :
        (JustFailed(u) /\ timers[u] # <<>> /\ Hinted(lastErr[u]))
            => timers[u] = <<lastErr[u].retryAfter * 1000>>

\* C5 witness: a hint of 9 s schedules the retry after 9000 ms, over the cap.
C5_Witness ==
    \E u \in Units :
        /\ JustFailed(u)
        /\ lastErr[u].retryAfter = 9
        /\ timers[u] = <<9000>>

\* the delays the backoff calculator is to give for attemptIndex 0..5
BackoffTable == <<500, 1000, 2000, 4000, 8000, 8000>>

C7_RejectedWithLastCause ==
    \A u \in Units :
        promise[u] = "rejected" =>
            /\ ~cause[u].null
            /\ cause[u] = lastErr[u]
            /\ cause[u].attempt = calls[u]

\* C7 witness: a unit out of retries, rejected with its seventh attempt's cause.
C7_Witness ==
    \E u \in Units :
        /\ promise[u] = "rejected"
        /\ retries[u] = 0
        /\ cause[u].attempt = 7
        /\ cause[u].retryAfter # 0

\* C8: a unit enters the queue once and holds one slot from admission until
\* its future settles, backoff waits and retries included.
C8_SlotHeldUntilSettled ==
    /\ \A w \in WrapperIds :
          pendingPromises[w] =
              Cardinality({u \in UnitsOf(w) : IsAdmitted(u) /\ ~IsSettled(u)})
    /\ \A u \in Units : InQueue(u) <=> (future[u] = "pending" /\ ~IsAdmitted(u))
    /\ \A w, x \in WrapperIds :
          \A i \in 1 .. Len(queue[w]) : \A j \in 1 .. Len(queue[x]) :
              queue[w][i] = queue[x][j] => (w = x /\ i = j)
    /\ \A u \in Units : (timers[u] # <<>> \/ inflight[u] > 0) => (IsAdmitted(u) /\ ~IsSettled(u))
    /\ \A u \in Units : InQueue(u) => calls[u] = 0

\* C8 witness: 29 admitted units all wait out a backoff delay and a 30th
\* submitted unit is not admitted.
C8_Witness ==
    \E w \in WrapperIds :
        /\ Cardinality({u \in UnitsOf(w) : timers[u] # <<>>}) = MAX_CONCURRENT
        /\ InFlightOf(w) = 0
        /\ \E u \in UnitsOf(w) : InQueue(u) /\ calls[u] = 0

\* C9: units are admitted in the order in which they were submitted.
C9_FifoAdmission ==
    /\ \A u, v \in Units :
          (u < v /\ wrapper[u] = wrapper[v] /\ IsAdmitted(v)) => IsAdmitted(u)
    /\ \A w \in WrapperIds :
          \A i, j \in 1 .. Len(queue[w]) : i < j => queue[w][i] < queue[w][j]

\* C9 witness: a unit that had to wait has been admitted while a unit
\* submitted after it still waits.
C9_Witness ==
    \E u, v \in Units :
        /\ MAX_CONCURRENT < u
        /\ u < v
        /\ wrapper[u] = wrapper[v]
        /\ IsAdmitted(u)
        /\ InQueue(v)

\* C10: within a unit at most one physical call is in flight, and a retry's
\* call starts only when the previous call has completed and the timer fires.
C10_AttemptsSequential ==
    [][\A u \in Units :
          /\ inflight'[u] <= 1
          /\ inflight'[u] + Len(timers'[u]) <= 1
          /\ calls'[u] > calls[u] =>
                /\ inflight[u] = 0
                /\ calls'[u] = calls[u] + 1
                /\ calls[u] > 0 => (timers[u] # <<>> /\ timers'[u] = Tail(timers[u]))
      ]_vars

\* C10 witness: a retry's physical call is in flight.
C10_Witness ==
    \E u \in Units :
        /\ calls[u] >= 2
        /\ inflight[u] = 1
        /\ timers[u] = <<>>

\* C11 as stated: counted over all wrapper instances alive in the process, at
\* most MAX_CONCURRENT = 29 physical transport calls are in flight.
C11_AtMostMaxConcurrentProcessWide == TotalInFlight <= MAX_CONCURRENT

\* C11: each wrapper instance owns MAX_CONCURRENT = 29 slots of its own: an
\* instance never holds more than 29 slots, the instances together never have
\* more than 29 calls in flight each, and a unit waits only when the 29 slots
\* of the instance it was called on are held, whatever the other instances do.
C11_SlotsPerWrapperInstance ==
    /\ \A w \in WrapperIds : pendingPromises[w] <= MAX_CONCURRENT
    /\ TotalInFlight <= MAX_CONCURRENT * Wrappers
    /\ \A u \in Units :
          InQueue(u) =>
              Cardinality({v \in UnitsOf(wrapper[u]) :
                              IsAdmitted(v) /\ ~IsSettled(v)}) = MAX_CONCURRENT

\* C11 witness: two wrapper instances together have more than 29 physical
\* calls in flight.
C11_Witness ==
    /\ TotalInFlight > MAX_CONCURRENT
    /\ \E u, v \in Units : wrapper[u] = 1 /\ wrapper[v] = 2 /\ inflight[u] = 1 /\ inflight[v] = 1

\* what the retry contract makes of a completed physical call of unit u: in
\* the step in which the call completes the unit either settles, or spends one
\* retry and arms one timer
CompletionHandled(u) ==
    (inflight[u] = 1 /\ inflight'[u] = 0) =>
        \/ /\ promise'[u] \in {"resolved", "rejected"}
           /\ timers'[u] = <<>>
           /\ retries'[u] = retries[u]
        \/ /\ promise'[u] = "pending"
           /\ Len(timers'[u]) = 1
           /\ retries'[u] = retries[u] - 1

\* C12: the attachment upload obeys the same queueing and retry contract as a
\* generated operation: whatever the outcome of an attempt (transport error or
\* not, any status, with or without a retry-after hint, body present, absent
\* or not JSON), the completed call either settles the unit or schedules one
\* retry, as it does for a generated operation.
C12_AttachmentObeysSameContract ==
    [][\A u \in Units : kind[u] = "attachment" => CompletionHandled(u)]_vars

\* the latest physical call of unit u ended in a transport-level failure that
\* carries no response
TransportFailed(u) ==
    /\ answer[u].error
    /\ ~answer[u].response
    /\ inflight[u] = 0

\* C13: a transport-level failure that carries no response is propagated at
\* once as not retryable: the unit's promise is rejected by that attempt and no
\* retry is scheduled.
C13_TransportFailureRejectsAtOnce ==
    \A u \in Units :
        TransportFailed(u) =>
            /\ promise[u] = "rejected"
            /\ timers[u] = <<>>

\* the latest physical call of unit u was answered without a transport error
\* and with a status below 400
AnsweredBelow400(u) ==
    /\ ~answer[u].error
    /\ answer[u].response
    /\ answer[u].statusCode < 400
    /\ ~ParseThrows(answer[u])
    /\ inflight[u] = 0

\* C14 as stated: an answer without transport error and with a status below
\* 400 is no failure whatever its headers, a retry-after header included: it
\* resolves the unit and causes no retry.
C14_Below400IsNeverAFailure ==
    \A u \in Units :
        AnsweredBelow400(u) =>
            /\ lastErr[u].null
            /\ promise[u] = "resolved"
            /\ timers[u] = <<>>

\* C14: the classifier reports no failure exactly when there is no transport
\* error, the status is below 400 and the response carries no retry-after
\* header; such an answer resolves the unit and causes no retry. An answer
\* below 400 that carries a retry-after header yields a descriptor holding
\* only the hint, which is retried after the hinted delay while retries remain
\* and rejected otherwise.
C14_NullIffBelow400WithoutHint ==
    /\ \A u \in Units :
          (/\ answer[u] # NoRaw
           /\ inflight[u] = 0
           /\ ~ParseThrows(answer[u])
           /\ ~BuildErrorThrows(answer[u])
           /\ lastErr[u].null) =>
              (AnsweredBelow400(u) /\ answer[u].header = 0)
    /\ \A u \in Units :
          (AnsweredBelow400(u) /\ answer[u].header = 0) =>
              /\ lastErr[u].null
              /\ promise[u] = "resolved"
              /\ timers[u] = <<>>
    /\ \A u \in Units :
          (AnsweredBelow400(u) /\ answer[u].header # 0) =>
              /\ lastErr[u] = Err(0, answer[u].header, calls[u])
              /\ promise[u] \in {"pending", "rejected"}
              /\ promise[u] = "pending" <=> timers[u] = <<answer[u].header * 1000>>
              /\ promise[u] = "rejected" => retries[u] = 0

\* C14 witness: an upload answered 201 with a retry-after header waits for
\* its retry.
C14_Witness ==
    \E u \in Units :
        /\ AnsweredBelow400(u)
        /\ answer[u].header # 0
        /\ promise[u] = "pending"
        /\ timers[u] # <<>>

\* an option counts as configured when it holds a usable value: it is set,
\* not false and not the empty string
Configured(v) == v # Undefined /\ v # "false" /\ v # ""

\* C15: the request builder picks the auth block by strict precedence for
\* every combination of option values: OAuth configured gives bearer = token,
\* a password or not; else a configured password gives basic auth with
\* user = username and pass = password; else basic auth with user =
\* username + '/token' and pass = the API token. The URL is always the base
\* URI followed by the endpoint.
C15_AuthPrecedence ==
    params # NoParams =>
        /\ params.url = options.remoteUri \o endpoint
        /\ Configured(options.oauth) =>
              /\ params.auth.bearer = options.token
              /\ params.auth.user = Undefined
              /\ params.auth.pass = Undefined
        /\ (~Configured(options.oauth) /\ Configured(options.password)) =>
              /\ params.auth.bearer = Undefined
              /\ params.auth.user = options.username
              /\ params.auth.pass = options.password
        /\ (~Configured(options.oauth) /\ ~Configured(options.password)) =>
              /\ params.auth.bearer = Undefined
              /\ params.auth.user = options.username \o "/token"
              /\ params.auth.pass = options.token

\* C15 witness: a request was built for a client configured with both OAuth
\* and a password, and it carries the bearer token.
C15_Witness ==
    /\ options.oauth = "true"
    /\ options.password = "secret"
    /\ options.token = "t0ken"
    /\ params.auth.bearer = "t0ken"
    /\ params.url = options.remoteUri \o "/articles/2/attachments.json"

\* the latest physical call of unit u completed and the completion callback
\* was called without an error
JustSucceeded(u) ==
    /\ calls[u] > 0
    /\ inflight[u] = 0
    /\ lastErr[u].null
    /\ lastErr[u].attempt = calls[u]

\* C16: an attempt that completes without failure, the first or a retry,
\* resolves the unit's promise with that attempt's result, and the unit ends
\* there: once resolved, it starts no further physical call and arms no timer,
\* and its future is resolved.
C16_SuccessResolvesAndEnds ==
    [][\A u \in Units :
          /\ JustSucceeded(u)' =>
                /\ promise'[u] = "resolved"
                /\ result'[u] = calls'[u]
                /\ timers'[u] = <<>>
                /\ future'[u] \in {"pending", "resolved"}
          /\ promise[u] = "resolved" =>
                /\ promise'[u] = "resolved"
                /\ result'[u] = result[u]
                /\ calls'[u] = calls[u]
                /\ inflight'[u] = 0
                /\ timers'[u] = <<>>
                /\ future'[u] \in {future[u], "resolved"}
      ]_vars

\* C16 witness: a unit whose first attempts failed is resolved with the result
\* of its third attempt.
C16_Witness ==
    \E u \in Units :
        /\ JustSucceeded(u)
        /\ calls[u] = 3
        /\ result[u] = 3
        /\ future[u] = "resolved"

\* the retries of unit u scheduled so far: each one armed a timer, and each
\* timer that fired started one more physical call
RetriesScheduled(u) == IF calls[u] = 0 THEN 0 ELSE calls[u] - 1 + Len(timers[u])

\* C17: exactly one warning is logged for each retry that is scheduled and
\* none otherwise (not on success, on a rejection or on exhaustion): the
\* number of warnings of a unit equals its number of retries, and each warning
\* reports the delay used for that retry and the number of attempts remaining
\* after the decrement, 5 on the first retry down to 0 on the sixth.
C17_OneWarningPerRetry ==
    [][\A u \in Units :
          /\ warned'[u].count = RetriesScheduled(u)'
          /\ warned'[u].count = MAX_RETRIES - retries'[u]
          /\ IF Len(timers'[u]) > Len(timers[u])
             THEN /\ warned'[u].count = warned[u].count + 1
                  /\ warned'[u].delay = timers'[u][Len(timers'[u])]
                  /\ warned'[u].remaining = retries'[u]
                  /\ warned'[u].remaining = MAX_RETRIES - warned'[u].count
             ELSE warned'[u] = warned[u]
      ]_vars

\* C17 witness: the sixth retry of a unit has been logged with 0 attempts
\* remaining, and the unit was then rejected without a further warning.
C17_Witness ==
    \E u \in Units :
        /\ warned[u].count = MAX_RETRIES
        /\ warned[u].remaining = 0
        /\ promise[u] = "rejected"
        /\ calls[u] = MAX_RETRIES + 1

Settled == {"resolved", "rejected"}

\* C18: a unit settles at most once: its promise and its future are never
\* both resolved and rejected, a settled outcome (state, result, cause) never
\* changes, the future takes the promise's outcome, and once the unit is
\* settled it starts no physical call and has no timer pending.
C18_SettlesAtMostOnce ==
    [][\A u \in Units :
          /\ promise[u] \in Settled =>
                /\ promise'[u] = promise[u]
                /\ result'[u] = result[u]
                /\ cause'[u] = cause[u]
                /\ calls'[u] = calls[u]
                /\ inflight[u] = 0 /\ inflight'[u] = 0
                /\ timers[u] = <<>> /\ timers'[u] = <<>>
          /\ future[u] \in Settled =>
                /\ future'[u] = future[u]
                /\ promise[u] = future[u]
          /\ future'[u] \in Settled => future'[u] = promise[u]
      ]_vars

\* C18 witness: one unit's future is rejected after its retries ran out.
C18_Witness ==
    \E u \in Units :
        /\ future[u] = "rejected"
        /\ promise[u] = "rejected"
        /\ calls[u] = MAX_RETRIES + 1
        /\ ~cause[u].null

\* the units of wrapper instance w that were admitted and have not settled
Running(w) == {u \in UnitsOf(w) : IsAdmitted(u) /\ ~IsSettled(u)}

\* C19: the queue is work-conserving: the slots held are exactly the units
\* admitted and not yet settled; while a unit waits, all 29 slots of its queue
\* are held by unsettled units; and in the step in which an admitted unit
\* settles its slot is freed and the oldest waiting unit, if any, is admitted.
C19_WorkConserving ==
    [][/\ \A w \in WrapperIds :
            /\ pendingPromises'[w] = Cardinality(Running(w)')
            /\ queue'[w] # <<>> => pendingPromises'[w] = MAX_CONCURRENT
       /\ \A u \in Units :
            (~IsSettled(u) /\ IsSettled(u)') =>
                LET w == wrapper[u]
                IN  /\ u \in Running(w)
                    /\ u \notin Running(w)'
                    /\ IF queue[w] = <<>>
                       THEN /\ queue'[w] = <<>>
                            /\ Running(w)' = Running(w) \ {u}
                       ELSE /\ queue'[w] = Tail(queue[w])
                            /\ Running(w)' = (Running(w) \ {u}) \cup {Head(queue[w])}
                            /\ \A v \in Units : InQueue(v) => Head(queue[w]) <= v
                            /\ calls'[Head(queue[w])] = 1
      ]_vars

\* C19 witness: 29 unsettled units hold every slot of a queue in which a
\* further unit waits; one of the 29 was admitted when an earlier unit settled.
C19_Witness ==
    \E w \in WrapperIds :
        /\ Len(queue[w]) = 1
        /\ Cardinality(Running(w)) = MAX_CONCURRENT
        /\ \E u \in Running(w) : u > MAX_CONCURRENT
        /\ \E u \in UnitsOf(w) : IsSettled(u)

\* how unit v has ended, if it has: whether its promise and its future are
\* resolved or rejected, and with which result or cause
Outcome(v) ==
    << IF promise[v] \in Settled THEN promise[v] ELSE "unsettled",
       IF future[v] \in Settled THEN future[v] ELSE "unsettled",
       result[v], cause[v] >>

\* unit u takes a step of its own: one of its physical calls completes (the
\* callback resolves, retries or rejects), its retry timer fires, or its
\* future settles
Steps(u) ==
    \/ inflight'[u] < inflight[u]
    \/ timers'[u] # timers[u]
    \/ (~IsSettled(u) /\ IsSettled(u)')

\* C20: retry state is private to each unit: a completion, retry or
\* settlement of one unit leaves the retries remaining, the argument list and
\* the outcome of every other unit unchanged (a unit admitted by that
\* settlement has its own callback appended to its own argument list), and
\* each unit spends a budget of MAX_RETRIES = 6 of its own.
C20_RetryStatePrivate ==
    [][\A u \in Units :
          /\ Steps(u) =>
                \A v \in Units \ {u} :
                    /\ retries'[v] = retries[v]
                    /\ Outcome(v)' = Outcome(v)
                    /\ \/ args'[v] = args[v]
                       \/ /\ ~IsAdmitted(v) /\ IsAdmitted(v)'
                          /\ args'[v] = Append(args[v], "callback")
          /\ retries'[u] = MAX_RETRIES - RetriesScheduled(u)'
          /\ IsAdmitted(u)' => args'[u] = Append(Args(kind'[u]), "callback")
      ]_vars

\* C20 witness: one unit has spent a retry and made its second call while
\* another, whose first call is in flight, still has its full budget.
C20_Witness ==
    \E u, v \in Units :
        /\ u # v
        /\ retries[v] < MAX_RETRIES
        /\ calls[v] >= 2
        /\ retries[u] = MAX_RETRIES
        /\ calls[u] = 1
        /\ inflight[u] = 1

====
